---- MODULE Spec2Model ----
(***************************************************************************)
(* A model of simple_file_logger (src/src/lib.rs): a file sink for the     *)
(* `log` facade with two file-access strategies, KeepOpen and Transient.   *)
(*                                                                         *)
(* The file system is a map from paths to files; a file's content is a     *)
(* sequence of one-character strings, so that formatting and appending are *)
(* computed character by character.  Every I/O primitive whose Result the  *)
(* code inspects or discards takes the environment's verdict as an         *)
(* argument (envOk): the operation succeeds only if the code's own         *)
(* arguments allow it and the environment does.                            *)
(***************************************************************************)
EXTENDS Integers, Sequences, FiniteSets, TLC

VARIABLES
    fs,         \* [Paths -> [exists, data]]: the files at the paths the process uses
    fds,        \* the set of file descriptors the process holds open
    logger,     \* the facade's registration slot: NopLogger or a FileLogger
    maxLevel,   \* the facade's global maximum level (log::max_level())
    envFilter,  \* what Filters::from_env() reads from the process environment
    nCalls,     \* number of calls made so far (setup, log and flush)
    setupLog,   \* history: one entry per setup call, in call order
    openFailed, \* history: some Transient log call failed to open its file
    last        \* history: the last call and how it ended

vars == <<fs, fds, logger, maxLevel, envFilter, nCalls, setupLog, openFailed, last>>

-----------------------------------------------------------------------------
(* Bounds and inputs *)

\* The number of calls the process makes.
MaxCalls == 3

Paths == {"p", "q"}
Targets == {"a"}
Payloads == {<<"m">>}
\* What the clock reads when a record is logged, in milliseconds since the epoch.
Times == {10}

\* File states the run may start from: no file, an empty file, a file with content.
OldContent == <<"O", "\n">>
Absent == [exists |-> FALSE, data |-> <<>>]
InitFiles == {Absent, [exists |-> TRUE, data |-> <<>>], [exists |-> TRUE, data |-> OldContent]}

-----------------------------------------------------------------------------
(* The log facade's vocabulary *)

\* log::Level, in the facade's order: Error = 1 .. Trace = 5.
LevelNames == << <<"E","R","R","O","R">>, <<"W","A","R","N">>, <<"I","N","F","O">>,
                 <<"D","E","B","U","G">>, <<"T","R","A","C","E">> >>
Levels == 1..Len(LevelNames)
LevelFilter_Trace == Len(LevelNames)

\* The levels the application logs at: ERROR and INFO.
LogLevels == {l \in Levels : LevelNames[l][1] \in {"E", "I"}}
Records == [level : LogLevels, target : Targets, payload : Payloads]

NopLogger == [tag |-> "Nop"]

\* Filters::from_env(): a maximum level per target, as the environment sets it:
\* up to WARN, or everything.
EnvFilters == { [t \in Targets |-> 2], [t \in Targets |-> LevelFilter_Trace] }

-----------------------------------------------------------------------------
(* Formatting: "[{level: <5}] {timestamp} [{target}] {payload}" *)

LevelWidth == 5

Digits == <<"0", "1", "2", "3", "4", "5", "6", "7", "8", "9">>

\* Display of a u64: its decimal digits, most significant first.
RECURSIVE ToDecimal(_)
ToDecimal(n) == IF n < 10 THEN <<Digits[n + 1]>>
                ELSE Append(ToDecimal(n \div 10), Digits[(n % 10) + 1])

\* Formatter::pad with fill ' ', left alignment and a minimum width: the string,
\* then one write per fill character; a longer string is written whole.
PadLeftAligned(s, width) ==
    <<s>> \o [i \in 1..(IF Len(s) < width THEN width - Len(s) ELSE 0) |-> <<" ">>]

\* The pieces write_fmt hands to the writer, one write_all each.
FormatPieces(record, time) ==
    << <<"[">> >> \o PadLeftAligned(LevelNames[record.level], LevelWidth)
    \o << <<"]", " ">>, ToDecimal(time), <<" ", "[">>, <<record.target>>,
          <<"]", " ">>, record.payload >>

RECURSIVE Flatten(_)
Flatten(pieces) == IF pieces = <<>> THEN <<>> ELSE Head(pieces) \o Flatten(Tail(pieces))

\* The text of one formatted record.
FormatLine(record, time) == Flatten(FormatPieces(record, time))

\* fn timestamp() -> u64: milliseconds since the Unix epoch, read from the clock.
\* The clock reads a time after the epoch that fits in 64 bits, so that neither the
\* unwrap nor the cast to u64 changes the value.
timestamp(clock) == clock

-----------------------------------------------------------------------------
(* std::fs, as far as the sink uses it *)

\* The lowest descriptor not in use, as the OS hands them out.
LowestFree(used) == CHOOSE n \in 0..Cardinality(used) :
                        n \notin used /\ \A m \in 0..(n - 1) : m \in used

\* std::fs::remove_file(path): removes an existing file if the environment allows.
remove_file(files, path, envOk) ==
    IF files[path].exists /\ envOk
    THEN [ok |-> TRUE, fs |-> [files EXCEPT ![path] = Absent]]
    ELSE [ok |-> FALSE, fs |-> files]

\* std::fs::File::open(path): read-only, the file must exist.
File_open(files, used, path, envOk) ==
    IF files[path].exists /\ envOk
    THEN [ok |-> TRUE, fs |-> files,
          file |-> [fd |-> LowestFree(used), path |-> path,
                    write |-> FALSE, append |-> FALSE]]
    ELSE [ok |-> FALSE, fs |-> files, file |-> [fd |-> -1]]

\* A variant of OpenOptions_open that leaves out .append(true).
OpenOptions_open_without_append(files, used, path, envOk) ==
    IF envOk
    THEN [ok |-> TRUE,
          fs |-> IF files[path].exists THEN files
                 ELSE [files EXCEPT ![path] = [exists |-> TRUE, data |-> <<>>]],
          file |-> [fd |-> LowestFree(used), path |-> path,
                    write |-> TRUE, append |-> FALSE]]
    ELSE [ok |-> FALSE, fs |-> files, file |-> [fd |-> -1]]

\* OpenOptions::new().write(true).create(true).append(true).open(path)
OpenOptions_open(files, used, path, envOk) ==
    IF envOk
    THEN [ok |-> TRUE,
          fs |-> IF files[path].exists THEN files
                 ELSE [files EXCEPT ![path] = [exists |-> TRUE, data |-> <<>>]],
          file |-> [fd |-> LowestFree(used), path |-> path,
                    write |-> TRUE, append |-> TRUE]]
    ELSE [ok |-> FALSE, fs |-> files, file |-> [fd |-> -1]]

\* Bytes written through a handle: at the end of the file in append mode, else
\* from the handle's position (0 for a handle that has not written yet).
WriteBytes(files, file, bytes) ==
    LET old == files[file.path].data
        new == IF file.append THEN old \o bytes
               ELSE bytes \o SubSeq(old, Len(bytes) + 1, Len(old))
    IN [files EXCEPT ![file.path].data = new]

\* Write::write_fmt on a File: one write_all per piece, stopping at the first error.
\* envPieces is how many pieces the environment lets through; a handle not opened
\* for writing rejects the first one.
write_fmt(files, file, pieces, envPieces) ==
    LET n == IF file.write THEN envPieces ELSE 0
    IN [ok |-> n = Len(pieces),
        written |-> n,
        fs |-> IF n = 0 THEN files
               ELSE WriteBytes(files, file, Flatten(SubSeq(pieces, 1, n)))]

-----------------------------------------------------------------------------
(* enum Kind, struct FileLogger *)

KeepOpen(file) == [tag |-> "KeepOpen", file |-> file]
Transient(path) == [tag |-> "Transient", path |-> path]

FileLogger(kind, filters) == [tag |-> "FileLogger", kind |-> kind, filters |-> filters]

\* Filters::is_enabled(metadata): the record's level against its target's maximum.
is_enabled(filters, metadata) == metadata.level <= filters[metadata.target]

\* The path a sink writes to.
SinkPath(self) == IF self.kind.tag = "KeepOpen" THEN self.kind.file.path ELSE self.kind.path

-----------------------------------------------------------------------------
(* Setup: set_boxed_logger, init and the four entry points.  Each returns the  *)
(* caller's Result together with the state it leaves.                          *)

\* A variant of set_boxed_logger that installs the logger over a registered one.
set_boxed_logger_replacing(slot, used, boxed) ==
    [ok |-> TRUE, logger |-> boxed, fds |-> used]

\* log::set_boxed_logger: installs the logger if the slot is empty; otherwise the
\* slot is kept, the box is dropped (closing a KeepOpen file) and the call fails.
set_boxed_logger(slot, used, boxed) ==
    IF slot = NopLogger
    THEN [ok |-> TRUE, logger |-> boxed, fds |-> used]
    ELSE [ok |-> FALSE, logger |-> slot,
          fds |-> IF boxed.kind.tag = "KeepOpen" THEN used \ {boxed.kind.file.fd} ELSE used]

\* fn init(kind, filters) -> Result
init(files, used, kind, filters) ==
    LET r == set_boxed_logger(logger, used, FileLogger(kind, filters))
    IN [result |-> IF r.ok THEN "ok" ELSE "already_registered",
        fs |-> files, fds |-> r.fds, logger |-> r.logger,
        maxLevel |-> LevelFilter_Trace]

\* The state a setup call leaves when it returns before reaching init.
SetupIoError == [result |-> "io_error", fs |-> fs, fds |-> fds, logger |-> logger,
                 maxLevel |-> maxLevel]

\* pub fn append_transient(path) -> Result
append_transient(path, envOk) ==
    init(fs, fds, Transient(path), envFilter)

\* A variant of truncate_transient that does not remove the file.
truncate_transient_keeping_file(path, envOk) ==
    init(fs, fds, Transient(path), envFilter)

\* pub fn truncate_transient(path) -> Result
truncate_transient(path, envOk) ==
    LET rm == remove_file(fs, path, envOk)
    IN init(rm.fs, fds, Transient(path), envFilter)

\* pub fn append(path) -> Result
append(path, envOk) ==
    LET o == File_open(fs, fds, path, envOk)
    IN IF o.ok THEN init(o.fs, fds \cup {o.file.fd}, KeepOpen(o.file), envFilter)
       ELSE SetupIoError

\* A variant of truncate that empties the file it opens.
truncate_emptying_file(path, envOk) ==
    LET o == File_open(fs, fds, path, envOk)
    IN IF o.ok THEN init([o.fs EXCEPT ![path].data = <<>>], fds \cup {o.file.fd},
                         KeepOpen(o.file), envFilter)
       ELSE SetupIoError

\* pub fn truncate(path) -> Result
truncate(path, envOk) ==
    LET o == File_open(fs, fds, path, envOk)
    IN IF o.ok THEN init(o.fs, fds \cup {o.file.fd}, KeepOpen(o.file), envFilter)
       ELSE SetupIoError

-----------------------------------------------------------------------------
(* impl FileLogger, impl log::Log for FileLogger.  Each returns how the call   *)
(* ended ("returned" or "panicked") together with the state it leaves.         *)

\* A call that did nothing.
NoEffect == [result |-> "returned", fs |-> fs, fds |-> fds,
             opened |-> 0, closed |-> 0, openOk |-> FALSE, ioError |-> FALSE,
             written |-> 0, complete |-> FALSE]

\* A variant of print that unwraps the Result of open.
print_unwrapping_open(self, record, clock, envOpen, envPieces) ==
    LET pieces == FormatPieces(record, timestamp(clock))
    IN IF self.kind.tag = "KeepOpen"
       THEN LET w == write_fmt(fs, self.kind.file, pieces, envPieces)
            IN [NoEffect EXCEPT !.fs = w.fs, !.ioError = ~w.ok,
                                !.written = w.written, !.complete = w.ok]
       ELSE LET o == OpenOptions_open(fs, fds, self.kind.path, envOpen)
            IN IF ~o.ok
               THEN [NoEffect EXCEPT !.result = "panicked", !.opened = 1, !.ioError = TRUE]
               ELSE LET w == write_fmt(o.fs, o.file, pieces, envPieces)
                    IN [NoEffect EXCEPT !.fs = w.fs,
                                        !.fds = (fds \cup {o.file.fd}) \ {o.file.fd},
                                        !.opened = 1, !.closed = 1,
                                        !.openOk = TRUE, !.ioError = ~w.ok,
                                        !.written = w.written, !.complete = w.ok]

\* A variant of print that unwraps the Result of write_fmt.
print_unwrapping_write(self, record, clock, envOpen, envPieces) ==
    LET pieces == FormatPieces(record, timestamp(clock))
    IN IF self.kind.tag = "KeepOpen"
       THEN LET w == write_fmt(fs, self.kind.file, pieces, envPieces)
            IN [NoEffect EXCEPT !.result = IF w.ok THEN "returned" ELSE "panicked",
                                !.fs = w.fs, !.ioError = ~w.ok,
                                !.written = w.written, !.complete = w.ok]
       ELSE LET o == OpenOptions_open(fs, fds, self.kind.path, envOpen)
            IN IF ~o.ok
               THEN [NoEffect EXCEPT !.opened = 1, !.ioError = TRUE]
               ELSE LET w == write_fmt(o.fs, o.file, pieces, envPieces)
                    IN [NoEffect EXCEPT !.result = IF w.ok THEN "returned" ELSE "panicked",
                                        !.fs = w.fs,
                                        !.fds = (fds \cup {o.file.fd}) \ {o.file.fd},
                                        !.opened = 1, !.closed = 1,
                                        !.openOk = TRUE, !.ioError = ~w.ok,
                                        !.written = w.written, !.complete = w.ok]

\* A variant of print that keeps the file it opened (it is never closed).
print_keeping_file(self, record, clock, envOpen, envPieces) ==
    LET pieces == FormatPieces(record, timestamp(clock))
    IN IF self.kind.tag = "KeepOpen"
       THEN LET w == write_fmt(fs, self.kind.file, pieces, envPieces)
            IN [NoEffect EXCEPT !.fs = w.fs, !.ioError = ~w.ok,
                                !.written = w.written, !.complete = w.ok]
       ELSE LET o == OpenOptions_open(fs, fds, self.kind.path, envOpen)
            IN IF ~o.ok
               THEN [NoEffect EXCEPT !.opened = 1, !.ioError = TRUE]
               ELSE LET w == write_fmt(o.fs, o.file, pieces, envPieces)
                    IN [NoEffect EXCEPT !.fs = w.fs, !.fds = fds \cup {o.file.fd},
                                        !.opened = 1,
                                        !.openOk = TRUE, !.ioError = ~w.ok,
                                        !.written = w.written, !.complete = w.ok]

\* FileLogger::print
print(self, record, clock, envOpen, envPieces) ==
    LET pieces == FormatPieces(record, timestamp(clock))
    IN IF self.kind.tag = "KeepOpen"
       THEN LET w == write_fmt(fs, self.kind.file, pieces, envPieces)
            IN [NoEffect EXCEPT !.fs = w.fs, !.ioError = ~w.ok,
                                !.written = w.written, !.complete = w.ok]
       ELSE LET o == OpenOptions_open(fs, fds, self.kind.path, envOpen)
            IN IF ~o.ok
               THEN [NoEffect EXCEPT !.opened = 1, !.ioError = TRUE]
               ELSE LET w == write_fmt(o.fs, o.file, pieces, envPieces)
                    IN \* `new` is dropped at the end of the scope, closing the file
                       [NoEffect EXCEPT !.fs = w.fs,
                                        !.fds = (fds \cup {o.file.fd}) \ {o.file.fd},
                                        !.opened = 1, !.closed = 1,
                                        !.openOk = TRUE, !.ioError = ~w.ok,
                                        !.written = w.written, !.complete = w.ok]

\* Log::enabled
enabled(self, metadata) == is_enabled(self.filters, metadata)

\* A variant of log that prints without asking the filter.
log_without_filter(self, record, clock, envOpen, envPieces) ==
    print(self, record, clock, envOpen, envPieces)

\* Log::log
log(self, record, clock, envOpen, envPieces) ==
    IF enabled(self, record)
    THEN print(self, record, clock, envOpen, envPieces)
    ELSE NoEffect

\* Log::flush: File::flush's Result is discarded.
flush(self, envOk) ==
    IF self.kind.tag = "KeepOpen"
    THEN [NoEffect EXCEPT !.ioError = ~envOk]
    ELSE NoEffect

-----------------------------------------------------------------------------
(* The process: calls of the setup API and of the facade, in any order *)

\* The history entry of a call: what was called and how it ended.  envRefused
\* says that the environment refused an I/O operation the call made.
Call(op, path, record, clock, dispatched, refused, r) ==
    [op |-> op, path |-> path, record |-> record, clock |-> clock,
     result |-> r.result, dispatched |-> dispatched, envRefused |-> refused,
     opened |-> r.opened, closed |-> r.closed, openOk |-> r.openOk,
     ioError |-> r.ioError, written |-> r.written, complete |-> r.complete]

NoRecord == [level |-> 0, target |-> "", payload |-> <<>>]
NoCall == [op |-> "none", path |-> "", result |-> "", envRefused |-> FALSE]

SetupOps == {"append_transient", "truncate_transient", "append", "truncate"}

Init ==
    /\ fs \in [Paths -> InitFiles]
    /\ fs["q"] # [exists |-> TRUE, data |-> <<>>]    \* the empty file is tried at "p"
    /\ fds = {}
    /\ logger = NopLogger
    /\ maxLevel = 0
    /\ envFilter \in EnvFilters
    /\ nCalls = 0
    /\ setupLog = <<>>
    /\ openFailed = FALSE
    /\ last = NoCall

\* A setup call that ended as r.
SetupStep(op, path, refused, r) ==
    /\ nCalls < MaxCalls
    /\ nCalls' = nCalls + 1
    /\ fs' = r.fs /\ fds' = r.fds /\ logger' = r.logger /\ maxLevel' = r.maxLevel
    /\ setupLog' = Append(setupLog, [op |-> op, path |-> path, result |-> r.result,
                                     before |-> fs[path]])
    /\ last' = Call(op, path, NoRecord, 0, FALSE, refused,
                    [NoEffect EXCEPT !.result = r.result])
    /\ UNCHANGED <<envFilter, openFailed>>

AppendTransient(path) ==
    SetupStep("append_transient", path, FALSE, append_transient(path, TRUE))

TruncateTransient(path) ==
    \E envOk \in BOOLEAN :
        SetupStep("truncate_transient", path, fs[path].exists /\ ~envOk,
                  truncate_transient(path, envOk))

AppendKeepOpen(path) ==
    \E envOk \in BOOLEAN :
        SetupStep("append", path, fs[path].exists /\ ~envOk, append(path, envOk))

TruncateKeepOpen(path) ==
    \E envOk \in BOOLEAN :
        SetupStep("truncate", path, fs[path].exists /\ ~envOk, truncate(path, envOk))

\* How many pieces of a record the environment lets through: all of them, none, or
\* only the first.
WriteOutcomes(pieces) == {Len(pieces)} \cup {n \in {0, 1} : n < Len(pieces)}

\* Whether the environment refuses an I/O operation that this log call makes.
LogRefused(self, record, clock, envOpen, envPieces) ==
    /\ enabled(self, record)
    /\ \/ self.kind.tag = "Transient" /\ ~envOpen
       \/ envPieces < Len(FormatPieces(record, clock))

\* log::log!(target: t, level, payload): the macro checks the global maximum level
\* and hands the record to log::logger(), the no-op logger while none is registered.
Log(record, clock) ==
    /\ nCalls < MaxCalls
    /\ nCalls' = nCalls + 1
    /\ \E envOpen \in BOOLEAN, envPieces \in WriteOutcomes(FormatPieces(record, clock)) :
          LET dispatched == record.level <= maxLevel /\ logger # NopLogger
              r == IF dispatched THEN log(logger, record, clock, envOpen, envPieces)
                   ELSE NoEffect
          IN /\ fs' = r.fs /\ fds' = r.fds
             /\ openFailed' = (openFailed \/ (r.opened = 1 /\ ~r.openOk))
             /\ last' = Call("log", IF dispatched THEN SinkPath(logger) ELSE "",
                             record, clock, dispatched,
                             dispatched /\ LogRefused(logger, record, clock, envOpen, envPieces),
                             r)
    /\ UNCHANGED <<logger, maxLevel, envFilter, setupLog>>

\* log::logger().flush()
Flush ==
    /\ nCalls < MaxCalls
    /\ nCalls' = nCalls + 1
    /\ \E envOk \in BOOLEAN :
          LET dispatched == logger # NopLogger
              r == IF dispatched THEN flush(logger, envOk) ELSE NoEffect
          IN /\ fs' = r.fs /\ fds' = r.fds
             /\ last' = Call("flush", IF dispatched THEN SinkPath(logger) ELSE "",
                             NoRecord, 0, dispatched,
                             dispatched /\ logger.kind.tag = "KeepOpen" /\ ~envOk, r)
    /\ UNCHANGED <<logger, maxLevel, envFilter, setupLog, openFailed>>

Next ==
    \/ \E path \in Paths : AppendTransient(path)
    \/ \E path \in Paths : TruncateTransient(path)
    \/ \E path \in Paths : AppendKeepOpen(path)
    \/ \E path \in Paths : TruncateKeepOpen(path)
    \/ \E record \in Records, clock \in Times : Log(record, clock)
    \/ Flush

Spec == Init /\ [][Next]_vars

-----------------------------------------------------------------------------
(* Vocabulary of the properties.  In a step, last' is the call the step makes,  *)
(* the unprimed variables are the state the call starts from and the primed     *)
(* ones the state it leaves.                                                    *)

IsPrefix(a, b) == Len(a) <= Len(b) /\ SubSeq(b, 1, Len(a)) = a

\* The step is a log call that reaches the registered sink.
SinkLogs == last'.op = "log" /\ last'.dispatched

\* The step is a log call that the sink's filter lets through.
EnabledLog == SinkLogs /\ enabled(logger, last'.record)

\* The text the log call of this step formats.
NewLine == FormatLine(last'.record, last'.clock)

\* The file system after appending `text` to the file at `path`, creating it if needed.
Appended(files, path, text) ==
    [files EXCEPT ![path] = [exists |-> TRUE, data |-> files[path].data \o text]]

\* The last call was an enabled log call to the registered sink.
LastLogEnabled == last.op = "log" /\ last.dispatched /\ enabled(logger, last.record)

\* The index of the first successful setup call, 0 if there is none.
FirstOk == IF \E i \in 1..Len(setupLog) : setupLog[i].result = "ok"
           THEN CHOOSE i \in 1..Len(setupLog) :
                    /\ setupLog[i].result = "ok"
                    /\ \A j \in 1..(i - 1) : setupLog[j].result # "ok"
           ELSE 0

KeepOpenOps == {"append", "truncate"}

\* The sink `lg` is the one the setup call `entry` constructs.
SinkOf(entry, lg) ==
    /\ lg # NopLogger
    /\ lg.filters = envFilter
    /\ lg.kind.tag = (IF entry.op \in KeepOpenOps THEN "KeepOpen" ELSE "Transient")
    /\ SinkPath(lg) = entry.path

-----------------------------------------------------------------------------
(* The claims *)

\* C1: a log call whose record the sink's filter rejects opens nothing and writes
\* nothing: every file's existence and content, and the set of open files, are the
\* same after the call as before it (a Transient sink creates no missing file).
C1_DisabledLogChangesNothing ==
    [][ (SinkLogs /\ ~enabled(logger, last'.record))
            => (fs' = fs /\ fds' = fds /\ last'.opened = 0 /\ last'.written = 0) ]_vars

\* C1's case: a Transient sink whose file is missing rejected a record, and the file
\* is still missing.
C1_Witness ==
    /\ last.op = "log" /\ last.dispatched /\ ~enabled(logger, last.record)
    /\ logger.kind.tag = "Transient"
    /\ ~fs[SinkPath(logger)].exists

\* C2: after a successful setup by any of the four entry points, every enabled log
\* call (none of whose I/O operations the environment refuses) appends exactly its
\* formatted line to the content the output file had when the call started.
C2_EnabledLogAppendsLine ==
    [][ (EnabledLog /\ ~last'.envRefused)
            => fs' = Appended(fs, SinkPath(logger), NewLine) ]_vars

\* C3: of the setup calls made in one process, the first succeeds and the second
\* fails with "already registered".
C3_FirstSucceedsSecondAlreadyRegistered ==
    /\ Len(setupLog) >= 1 => setupLog[1].result = "ok"
    /\ Len(setupLog) >= 2 => setupLog[2].result = "already_registered"

\* C3, amended: at most one setup call succeeds.  A call made before it fails only
\* with the I/O error of append or truncate, whose path could not be opened, and
\* registers nothing; every call made after it fails, with "already registered" or,
\* for append and truncate, with the I/O error of a path that cannot be opened (the
\* open comes before the registration).  The registered sink is at every point the
\* one the successful call constructed, with its strategy and path, and every record
\* the facade dispatches goes to it.
C3_OneRegistrationOnly ==
    /\ \A i \in 1..Len(setupLog) :
          /\ setupLog[i].result \in {"ok", "io_error", "already_registered"}
          /\ setupLog[i].result = "io_error" => setupLog[i].op \in KeepOpenOps
          /\ (FirstOk = 0 \/ i < FirstOk) => setupLog[i].result = "io_error"
          /\ (FirstOk # 0 /\ i > FirstOk) => setupLog[i].result # "ok"
    /\ FirstOk = 0 => logger = NopLogger
    /\ FirstOk # 0 => SinkOf(setupLog[FirstOk], logger)
    /\ (last.op \in {"log", "flush"} /\ last.dispatched)
          => (FirstOk # 0 /\ last.path = setupLog[FirstOk].path)

\* C3's case: a second setup call failed with "already registered" and a record was
\* then dispatched to the sink of the first call.
C3_Witness ==
    /\ Len(setupLog) = 2
    /\ setupLog[1].result = "ok" /\ setupLog[2].result = "already_registered"
    /\ setupLog[2].path # setupLog[1].path
    /\ LastLogEnabled /\ last.path = setupLog[1].path

\* C4: truncate_transient(path) followed immediately by one enabled log call leaves
\* at path a file that holds exactly the formatted line, whatever the file held
\* before (the environment refusing neither the removal nor the log call's I/O).
C4_TruncateTransientThenLog ==
    [][ (/\ last.op = "truncate_transient" /\ last.result = "ok" /\ ~last.envRefused
         /\ EnabledLog /\ ~last'.envRefused)
            => fs'[last.path] = [exists |-> TRUE, data |-> NewLine] ]_vars

\* C4's case: truncate_transient on a file with content, then one enabled log call.
C4_Witness ==
    /\ Len(setupLog) >= 1 /\ nCalls = Len(setupLog) + 1
    /\ LET e == setupLog[Len(setupLog)]
       IN /\ e.op = "truncate_transient" /\ e.result = "ok"
          /\ e.before = [exists |-> TRUE, data |-> OldContent]
          /\ LastLogEnabled /\ last.complete
          /\ fs[e.path].data = FormatLine(last.record, last.clock)

\* C5: append_transient leaves every file as it is, and an enabled log call to a
\* Transient sink (its I/O not refused by the environment) leaves the file's former
\* content followed by the formatted line; no log call to a Transient sink, failed
\* or not, overwrites or reorders content the file already had.
C5_AppendTransientThenLog ==
    [][ /\ last'.op = "append_transient" => fs' = fs
        /\ (EnabledLog /\ logger.kind.tag = "Transient" /\ ~last'.envRefused)
              => fs' = Appended(fs, logger.kind.path, NewLine)
        /\ (SinkLogs /\ logger.kind.tag = "Transient")
              => /\ IsPrefix(fs[logger.kind.path].data, fs'[logger.kind.path].data)
                 /\ \A q \in Paths \ {logger.kind.path} : fs'[q] = fs[q] ]_vars

\* C5's case: append_transient on a file with content, then one enabled log call.
C5_Witness ==
    /\ Len(setupLog) >= 1 /\ nCalls = Len(setupLog) + 1
    /\ LET e == setupLog[Len(setupLog)]
       IN /\ e.op = "append_transient" /\ e.result = "ok"
          /\ e.before = [exists |-> TRUE, data |-> OldContent]
          /\ LastLogEnabled /\ last.complete
          /\ fs[e.path].data = OldContent \o FormatLine(last.record, last.clock)

\* C6: a Transient log call whose open fails returns normally after that one
\* attempt and leaves the files, the open files and the registration as they were;
\* and after such a failure an enabled log call whose I/O the environment allows
\* appends its line to the file's content as usual.
C6_OpenFailureIsSilent ==
    [][ /\ (SinkLogs /\ last'.opened = 1 /\ ~last'.openOk)
              => /\ last'.result = "returned" /\ last'.written = 0
                 /\ fs' = fs /\ fds' = fds /\ logger' = logger /\ maxLevel' = maxLevel
        /\ (openFailed /\ EnabledLog /\ logger.kind.tag = "Transient" /\ ~last'.envRefused)
              => fs' = Appended(fs, logger.kind.path, NewLine) ]_vars

\* C6's case: an open failed earlier, and the last log call wrote its line.
C6_Witness ==
    /\ openFailed
    /\ LastLogEnabled /\ logger.kind.tag = "Transient" /\ last.openOk /\ last.complete
    /\ ~last.envRefused

\* C7: a log call whose write fails, or a flush call whose flush fails, returns
\* normally and leaves the registered sink (strategy and filter) and the facade's
\* maximum level unchanged, so later calls reach the same sink.
C7_WriteFailureIsSilent ==
    [][ (/\ last'.op \in {"log", "flush"} /\ last'.dispatched /\ last'.ioError
         /\ (last'.opened = 0 \/ last'.openOk))
            => /\ last'.result = "returned"
               /\ logger' = logger /\ logger' # NopLogger /\ maxLevel' = maxLevel ]_vars

\* C7's case: a write failed after part of the record had been written.
C7_Witness ==
    /\ LastLogEnabled
    /\ last.openOk /\ last.ioError /\ last.written > 0 /\ ~last.complete
    /\ last.result = "returned"

C9_HandleLifetime ==
    [][ /\ (logger' # NopLogger /\ logger'.kind.tag = "Transient") => fds' = {}
        /\ (logger' # NopLogger /\ logger'.kind.tag = "KeepOpen")
              => fds' = {logger'.kind.file.fd}
        /\ logger # NopLogger => logger' = logger
        /\ last'.op = "log" => /\ last'.opened <= 1
                               /\ last'.closed = (IF last'.openOk THEN 1 ELSE 0)
        /\ last'.op = "flush" => (last'.opened = 0 /\ last'.closed = 0) ]_vars

\* C9's case: a Transient sink has opened its file in a log call, written the
\* record, and holds no open file.
C9_Witness ==
    /\ logger # NopLogger /\ logger.kind.tag = "Transient"
    /\ last.op = "log" /\ last.openOk /\ last.complete /\ last.closed = 1
    /\ fds = {}

\* C10: a setup call that returns an error leaves the registration slot and every
\* file as they were.
C10_FailedSetupChangesNothing ==
    [][ (last'.op \in SetupOps /\ last'.result # "ok")
            => (logger' = logger /\ fs' = fs) ]_vars

====
